---- MODULE Spec2Model ----
(***************************************************************************)
(* Model of backend/app.py: the /upload inactivity report (token-based     *)
(* listing, per-entity enrichment, ranking) and the JIRA productivity      *)
(* statistics.  Each handler is a sequential program; one action is one    *)
(* loop iteration or one straight-line block of the handler.               *)
(***************************************************************************)
EXTENDS Integers, Sequences, FiniteSets, TLC

\* ------------------------------------------------------------------ bounds
MaxPages == 3        \* listing pages the directory serves in one run
MaxUsers == 3        \* users the directory holds
MaxIssues == 2       \* issues handed to analyze_productivity

\* --------------------------------------------------------- JSON and Python
EmptyObj == [k \in {} |-> 0]                        \* the JSON object {}
Get(o, k, d) == IF k \in DOMAIN o THEN o[k] ELSE d  \* dict.get(k, d)
None == "<None>"                                    \* Python None, where a string may stand
Truthy(s) == s # None /\ s # ""                     \* truth value of an optional string

RECURSIVE Concat(_)
Concat(ss) == IF ss = <<>> THEN <<>> ELSE Head(ss) \o Concat(Tail(ss))

SeqsUpTo(S, n) == UNION {[1..k -> S] : k \in 0..n}

\* round(n / d) to the nearest integer, ties to even (Python's round), d > 0
RoundHalfEven(n, d) ==
    LET q == n \div d
        r == n - q * d
    IN  IF 2 * r < d THEN q
        ELSE IF 2 * r > d THEN q + 1
        ELSE IF q % 2 = 0 THEN q ELSE q + 1

\* ------------------------------------------------------------ HTTP outcome
\* One requests.get call: it raises, or returns a status and a body that
\* response.json() decodes or fails to decode.
Raised == [raised |-> TRUE, status_code |-> 0, decodable |-> FALSE, body |-> EmptyObj]
Denied == [raised |-> FALSE, status_code |-> 403, decodable |-> TRUE,
           body |-> [error |-> "denied"]]
Garbled == [raised |-> FALSE, status_code |-> 200, decodable |-> FALSE, body |-> EmptyObj]
Ok(b) == [raised |-> FALSE, status_code |-> 200, decodable |-> TRUE, body |-> b]
Failures == {Raised, Denied, Garbled}
IsOk(o) == ~o.raised /\ o.status_code = 200 /\ o.decodable

\* What a call hands its caller: a value, or an exception that propagates.
Return(v) == [raised |-> FALSE, value |-> v]
Raise(e) == [raised |-> TRUE, value |-> EmptyObj, exc |-> e]

\* safe_get_json without the status test: the body of any decodable response
safe_get_json_anystatus(o) ==
    IF o.raised THEN Return(EmptyObj)
    ELSE IF o.decodable THEN Return(o.body) ELSE Return(EmptyObj)

\* safe_get_json without the except clause: failures of get and json propagate
safe_get_json_noexcept(o) ==
    IF o.raised THEN Raise("ConnectionError")
    ELSE IF o.status_code = 200
         THEN IF o.decodable THEN Return(o.body) ELSE Raise("JSONDecodeError")
         ELSE Return(EmptyObj)

safe_get_json(o) ==
    IF o.raised THEN Return(EmptyObj)               \* requests.get raised: except Exception
    ELSE IF o.status_code = 200
         THEN IF o.decodable THEN Return(o.body)    \* response.json()
              ELSE Return(EmptyObj)                 \* json() raised: except Exception
         ELSE Return(EmptyObj)

\* ------------------------------------------------- the directory and its pages
EmailPool == <<"a@x", "b@x", "c@x", "d@x", "e@x">>
User(i) == [primaryEmail |-> EmailPool[i]]
Tokens == {"t1", "t2"}

\* The pages the directory may answer with once `sent` users have been served
\* in `asked - 1` earlier pages: the next k users (or no 'users' key at all, or
\* one user record without 'primaryEmail'), with or without a continuation
\* token; a token is offered only while another page may follow.
ListBodies(sent, asked) ==
    LET slices == {[i \in 1..k |-> User(sent + i)] : k \in 0..(MaxUsers - sent)}
        toks == IF asked < MaxPages THEN Tokens ELSE {}
    IN  {[users |-> us] : us \in slices \cup {<<EmptyObj>>}}
        \cup {[users |-> us, nextPageToken |-> t] : us \in slices, t \in toks \cup {""}}
        \cup {[nextPageToken |-> t] : t \in toks}
        \cup {EmptyObj}

\* list comprehension [u['primaryEmail'] for u in users]; KeyError when a user lacks it
RECURSIVE PrimaryEmails(_)
PrimaryEmails(us) ==
    IF us = <<>> THEN Return(<<>>)
    ELSE IF "primaryEmail" \notin DOMAIN Head(us) THEN Raise("KeyError")
    ELSE LET rest == PrimaryEmails(Tail(us))
         IN  IF rest.raised THEN rest
             ELSE Return(<<Head(us).primaryEmail>> \o rest.value)

\* --------------------------------------------------------- time and timestamps
\* Instants are counted in half days, dates in days.
now == 20                                            \* datetime.utcnow()
DateOf(t) == t \div 2                                \* strftime("%Y-%m-%d")
Days(delta) == delta \div 2                          \* timedelta.days (floor)

\* An id.time string: its format and the instant it denotes.
Stamp(f, t) == [fmt |-> f, t |-> t]
EmptyStamp == Stamp("empty", 0)                      \* the string ""
NoStamp == Stamp("none", 0)                          \* None
Stamps == {Stamp("frac", now - 3), Stamp("whole", now - 4), Stamp("whole", now - 3),
           Stamp("frac", now - 1), Stamp("date-only", now - 6)}

\* The two strptime calls with the ValueError fallback between them.
ParseLastLogin(s) ==
    IF s.fmt = "frac" THEN Return(s.t)               \* "%Y-%m-%dT%H:%M:%S.%fZ"
    ELSE IF s.fmt = "whole" THEN Return(s.t)         \* except ValueError: "%Y-%m-%dT%H:%M:%SZ"
    ELSE Raise("ValueError")

\* ------------------------------------------------------- login activity lookup
LoginBodies ==
    {EmptyObj, [items |-> <<>>], [items |-> <<EmptyObj>>],
     [items |-> <<[id |-> EmptyObj]>>], [items |-> <<[id |-> [time |-> EmptyStamp]]>>]}
    \cup {[items |-> <<[id |-> [time |-> s]]>>] : s \in Stamps}
    \cup {[items |-> <<[id |-> [time |-> Stamp("frac", now - 4)]], EmptyObj>>]}

\* events[0].get("id", {}).get("time")
FirstEventTime(events) == Get(Get(events[1], "id", EmptyObj), "time", NoStamp)

\* `not events or not events[0].get("id", {}).get("time")`
NoLoginTimeItemsOnly(events) == events = <<>>
NoLoginTime(events) ==
    events = <<>> \/ FirstEventTime(events).fmt \in {"none", "empty"}

\* ---------------------------------------------------------------- usage lookup
ScanFirst == 4                                       \* range(4, 30)
ScanStop == 30
QuotaName == "accounts:used_quota_in_mb"
MbPerGb == 1024

Num(n) == [num |-> n]
Param(nm, v) == [name |-> nm, intValue |-> v]
Quota(n) == Param(QuotaName, Num(n))
ParamLists ==
    {<<>>, <<[name |-> QuotaName]>>, <<[name |-> "accounts:is_disabled"]>>,
     <<Quota(0)>>, <<Quota(2048)>>, <<Quota(0 - 1024)>>,
     <<Param("accounts:drive_used_quota_in_mb", Num(512)), Quota(2048)>>,
     <<Quota(0), Quota(2048)>>,
     <<Param(QuotaName, [text |-> "n/a"])>>}
UsageBodies ==
    {EmptyObj, [usageReports |-> <<>>], [usageReports |-> <<EmptyObj>>],
     [usageReports |-> <<[parameters |-> <<Quota(0)>>], [parameters |-> <<Quota(2048)>>]>>]}
    \cup {[usageReports |-> <<[parameters |-> ps]>>] : ps \in ParamLists}

\* float(x): an int or a numeric string converts, other text raises ValueError
Float(v) == IF "num" \in DOMAIN v THEN Return(v.num) ELSE Raise("ValueError")

\* The inner `for param in parameters` loop: the first parameter named
\* QuotaName sets total_storage_mb and ends the loop.
RECURSIVE ScanParameters(_, _)
ScanParameters(parameters, total) ==
    IF parameters = <<>> THEN Return(total)
    ELSE IF Get(Head(parameters), "name", None) = QuotaName
         THEN Float(Get(Head(parameters), "intValue", Num(0)))
         ELSE ScanParameters(Tail(parameters), total)

\* `if total_storage_mb > 0: break`
StopScanNonNegative(total) == total >= 0
StopScan(total) == total > 0

\* One iteration of `for days_ago in range(4, 30)` on the decoded usage_data:
\* the new total_storage_mb and whether the loop breaks.
UsageIteration(usage_data, total) ==
    LET reports == Get(usage_data, "usageReports", <<>>)
    IN  IF reports = <<>> THEN Return([total |-> total, brk |-> FALSE])
        ELSE LET r == ScanParameters(Get(reports[1], "parameters", <<>>), total)
             IN  IF r.raised THEN r
                 ELSE Return([total |-> r.value, brk |-> StopScan(r.value)])

\* round(total_storage_mb / 1024, 2), in hundredths of a GB
StorageGb(total) == RoundHalfEven(total * 100, MbPerGb)

\* inactive_users.sort(key=storage_gb, reverse=True): stable, descending
RECURSIVE InsertDesc(_, _)
InsertDesc(sorted, x) ==
    IF sorted = <<>> THEN <<x>>
    ELSE IF Head(sorted).storage_gb >= x.storage_gb
         THEN <<Head(sorted)>> \o InsertDesc(Tail(sorted), x)
         ELSE <<x>> \o sorted
RECURSIVE SortByStorageDesc(_)
SortByStorageDesc(s) ==
    IF s = <<>> THEN <<>>
    ELSE InsertDesc(SortByStorageDesc(SubSeq(s, 1, Len(s) - 1)), s[Len(s)])

\* ------------------------------------------------------------------- state
VARIABLES
    pc,                \* where the handler stands
    response,          \* what the handler returned: [status, body]
    effects,           \* what the handler did outside itself (temp file, token exchange)
    inactivity_days, page_token, user_emails,
    idx,               \* position of `for email in user_emails` (1-based)
    last_login_dt, days_inactive, days_ago, total_storage_mb, inactive_users,
    fetched,           \* a safe_get_json call: <<outcome>> before, <<outcome, result>> after
    listReqs,          \* page tokens sent by the listing loop, in order
    listPages,         \* outcomes of the listing requests, in order
    ent,               \* what happened to the entity being processed
    delayed,           \* a time.sleep step has run since the last login lookup
    jira_data,         \* what fetch_all_issues returned: [issues, total]
    issues,            \* the issue_data records analyze_productivity built
    stats,             \* calculate_user_stats: assignee -> counters
    pos,               \* position of `for issue in issues` (1-based)
    request,           \* the request the handler received
    first_page,        \* the first listing request of the run: "none", "ok" or "failed"
    df,                \* /analyze-xlsx: the sheet's rows, with the derived columns
    high_hours_threshold, high_missed_vm_threshold,
    top_users,         \* /analyze-xlsx: the selected rows
    remote,            \* the issues the JIRA server holds for the query (how many)
    all_issues, start_at, total_issues, fetched_count,
    posts,             \* fetch_all_issues: whether each search request was answered, in order
    faithful           \* every answer so far was the slice asked for, with the true total

locals == <<last_login_dt, days_inactive, days_ago, total_storage_mb>>
uploadVars == <<inactivity_days, page_token, user_emails, idx, locals, inactive_users,
                listReqs, listPages, ent, delayed, effects>>
jiraVars == <<jira_data, issues, stats, pos>>
xlsxVars == <<df, high_hours_threshold, high_missed_vm_threshold, top_users>>
fetchVars == <<remote, all_issues, start_at, total_issues, fetched_count, posts, faithful>>
vars == <<pc, response, fetched, uploadVars, jiraVars, request, first_page, xlsxVars,
          fetchVars>>

NoResponse == [status |-> 0, body |-> EmptyObj]
Respond(st, b) == [status |-> st, body |-> b]
NoEnt == [i |-> 0, lenBefore |-> 0, login |-> "none", days |-> 0, nusage |-> 0,
          usageOk |-> FALSE, lastOk |-> FALSE, sawPositive |-> FALSE, sawNonZero |-> FALSE]

UploadIdle ==
    /\ inactivity_days = 0 /\ page_token = None /\ user_emails = <<>> /\ idx = 0
    /\ last_login_dt = 0 /\ days_inactive = 0 /\ days_ago = 0 /\ total_storage_mb = 0
    /\ inactive_users = <<>> /\ listReqs = <<>> /\ listPages = <<>>
    /\ ent = NoEnt /\ delayed = FALSE /\ effects = {}

JiraIdle == jira_data = EmptyObj /\ issues = <<>> /\ stats = EmptyObj /\ pos = 0

NoRequest == EmptyObj
NaN == [nan |-> TRUE, q4 |-> 0]                      \* the quantile of no values
XlsxIdle ==
    /\ df = <<>> /\ top_users = <<>>
    /\ high_hours_threshold = NaN /\ high_missed_vm_threshold = NaN
FetchIdle ==
    /\ remote = 0 /\ all_issues = <<>> /\ start_at = 0 /\ total_issues = 0
    /\ fetched_count = 0 /\ posts = <<>> /\ faithful = TRUE

\* No request has been received: every local of every handler is unset.
Init ==
    /\ pc = "entry" /\ response = NoResponse /\ fetched = <<>>
    /\ request = NoRequest /\ first_page = "none"
    /\ UploadIdle /\ JiraIdle /\ XlsxIdle /\ FetchIdle

\* ----------------------------------------------------- /upload: request entry
FormValues == {[absent |-> TRUE], [text |-> "soon"], Num(1), Num(2)}
UploadRequests ==
    [file : BOOLEAN, inactivity_days : FormValues, admin_email : {None, "", "admin@x"}]
CredentialOutcomes == {"ok", "bad key file", "refresh failed"}

\* int(x): None raises TypeError, non-numeric text ValueError
ParseInt(v) == IF "num" \in DOMAIN v THEN Return(v.num)
               ELSE IF "text" \in DOMAIN v THEN Raise("ValueError") ELSE Raise("TypeError")

\* Lines 102-134: validation, temp file, credentials.
UploadEntry ==
    /\ pc = "entry"
    /\ \E req \in UploadRequests, cred \in CredentialOutcomes :
         LET days == ParseInt(req.inactivity_days)
         IN  /\ request' = req
             /\ IF ~req.file
                 THEN /\ response' = Respond(400, [error |-> "No file uploaded"])
                      /\ pc' = "done"
                      /\ UNCHANGED uploadVars
                 ELSE IF days.raised
                 THEN /\ response' = Respond(500, [error |-> days.exc])
                      /\ pc' = "done"
                      /\ UNCHANGED uploadVars
                 ELSE IF ~Truthy(req.admin_email)
                 THEN /\ response' = Respond(400, [error |-> "Admin email is required"])
                      /\ pc' = "done"
                      /\ UNCHANGED uploadVars
                 ELSE IF cred = "bad key file"
                 THEN /\ response' = Respond(500, [error |-> cred])
                      /\ pc' = "done"
                      /\ effects' = {"tempfile"}
                      /\ UNCHANGED <<inactivity_days, page_token, user_emails, idx, locals,
                                     inactive_users, listReqs, listPages, ent, delayed>>
                 ELSE IF cred = "refresh failed"
                 THEN /\ response' = Respond(500, [error |-> cred])
                      /\ pc' = "done"
                      /\ effects' = {"tempfile", "token exchange"}
                      /\ UNCHANGED <<inactivity_days, page_token, user_emails, idx, locals,
                                     inactive_users, listReqs, listPages, ent, delayed>>
                 ELSE /\ inactivity_days' = days.value
                      /\ effects' = {"tempfile", "token exchange"}
                      /\ user_emails' = <<>>
                      /\ page_token' = None
                      /\ pc' = "list"
                      /\ UNCHANGED <<response, idx, locals, inactive_users, listReqs,
                                     listPages, ent, delayed>>
    /\ UNCHANGED fetched
    /\ UNCHANGED <<jiraVars, xlsxVars, fetchVars, first_page>>

\* ----------------------------------------------------- /upload: user listing
\* user_emails.extend(...): where the page's emails go
ExtendFront(acc, emails) == emails \o acc
Extend(acc, emails) == acc \o emails

\* `if not page_token: break`
ListingEnds(tok) == ~Truthy(tok)

\* the token the request for the next page carries (`if page_token: url += ...`)
RequestToken(tok) == IF Truthy(tok) THEN tok ELSE None

\* One iteration of the `while True` loop, lines 148-156.
ListPage ==
    /\ pc = "list"
    /\ \E o \in Failures \cup {Ok(b) : b \in ListBodies(Len(user_emails), Len(listReqs) + 1)} :
         LET r == safe_get_json(o)
             res == r.value
             emails == PrimaryEmails(Get(res, "users", <<>>))
             tok == Get(res, "nextPageToken", None)
         IN  /\ listReqs' = Append(listReqs, RequestToken(page_token))
             /\ listPages' = Append(listPages, o)
             /\ first_page' = IF listPages # <<>> THEN first_page
                               ELSE IF IsOk(o) THEN "ok" ELSE "failed"
             /\ IF r.raised \/ emails.raised
                THEN /\ response' = Respond(500, [error |-> IF r.raised THEN r.exc ELSE emails.exc])
                     /\ pc' = "done"
                     /\ UNCHANGED <<user_emails, page_token>>
                ELSE /\ user_emails' = Extend(user_emails, emails.value)
                     /\ page_token' = tok
                     /\ pc' = IF ListingEnds(tok) THEN "listed" ELSE "list"
                     /\ UNCHANGED response
    /\ UNCHANGED <<fetched, inactivity_days, idx, locals, inactive_users, ent, delayed,
                   effects>>
    /\ UNCHANGED <<jiraVars, xlsxVars, fetchVars, request>>

\* Lines 158-159.  The listing loop's page_token is not read again, and the
\* record of the listing requests ends with the listing.
StartEnrichment ==
    /\ pc = "listed"
    /\ pc' = "loop"
    /\ idx' = 1
    /\ inactive_users' = <<>>
    /\ page_token' = None
    /\ listReqs' = <<>>
    /\ listPages' = <<>>
    /\ UNCHANGED <<response, fetched, inactivity_days, user_emails, locals, ent, delayed,
                   effects>>
    /\ UNCHANGED <<jiraVars, xlsxVars, fetchVars, request, first_page>>

\* -------------------------------------------- what the responses looked like
\* (read off the outcome itself, for the record kept in `ent`)
LoginShape(o) ==
    IF ~IsOk(o) THEN "failed"
    ELSE IF "items" \notin DOMAIN o.body \/ o.body.items = <<>> THEN "no items"
    ELSE LET first == o.body.items[1]
         IN  IF "id" \notin DOMAIN first \/ "time" \notin DOMAIN first.id THEN "no time"
             ELSE IF first.id.time = EmptyStamp THEN "empty time"
             ELSE "time"
ElapsedDays(o) ==
    IF LoginShape(o) = "time" THEN (now - o.body.items[1].id.time.t) \div 2 ELSE 0

\* the parameters of the first usage report that are named QuotaName
QuotaParams(o) ==
    IF ~IsOk(o) \/ "usageReports" \notin DOMAIN o.body \/ o.body.usageReports = <<>>
       \/ "parameters" \notin DOMAIN o.body.usageReports[1]
    THEN <<>>
    ELSE SelectSeq(o.body.usageReports[1].parameters,
                   LAMBDA q : "name" \in DOMAIN q /\ q.name = QuotaName)
IsNumber(q) == "intValue" \in DOMAIN q /\ "num" \in DOMAIN q.intValue
FirstQuotaNonZero(o) ==
    /\ QuotaParams(o) # <<>>
    /\ IsNumber(QuotaParams(o)[1])
    /\ QuotaParams(o)[1].intValue.num # 0
FirstQuotaPositive(o) ==
    /\ QuotaParams(o) # <<>>
    /\ IsNumber(QuotaParams(o)[1])
    /\ QuotaParams(o)[1].intValue.num > 0

\* ------------------------------------------------- /upload: enrichment loop
\* `if days_inactive < inactivity_days: continue`
BelowThresholdInverted(days, minimum) == days > minimum
BelowThreshold(days, minimum) == days < minimum

\* `continue`, and the end of the loop body: the next iteration assigns each
\* local of the loop body before it reads it, so the values left behind are
\* dead and are not carried along.
NextEntity ==
    /\ idx' = idx + 1
    /\ pc' = "loop"
    /\ last_login_dt' = 0 /\ days_inactive' = 0 /\ days_ago' = 0 /\ total_storage_mb' = 0

\* the handler without its except clause: the exception leaves the handler
Propagate(e) ==
    /\ pc' = "raised"
    /\ UNCHANGED response

\* except Exception as e: return jsonify({'error': str(e)}), 500
Abort(e) ==
    /\ response' = Respond(500, [error |-> e])
    /\ pc' = "done"

\* Lines 162-177 for user_emails[idx]: the login lookup, the drop rule, the
\* timestamp, the threshold; line 179 and the loop entry when the entity passes.
LoginLookup ==
    /\ pc = "loop"
    /\ idx <= Len(user_emails)
    /\ \E o \in Failures \cup {Ok(b) : b \in LoginBodies} :
         LET login_data == safe_get_json(o)
             events == Get(login_data.value, "items", <<>>)
             parsed == ParseLastLogin(FirstEventTime(events))
             days == Days(now - parsed.value)
         IN  /\ ent' = [NoEnt EXCEPT !.i = idx, !.lenBefore = Len(inactive_users),
                                    !.login = LoginShape(o), !.days = ElapsedDays(o),
                                    !.lastOk = IsOk(o)]
             /\ delayed' = FALSE
             /\ IF login_data.raised
                THEN Abort(login_data.exc) /\ UNCHANGED <<idx, locals>>
                ELSE IF NoLoginTime(events)
                THEN NextEntity /\ UNCHANGED response
                ELSE IF parsed.raised
                THEN Abort(parsed.exc) /\ UNCHANGED <<idx, locals>>
                ELSE IF BelowThreshold(days, inactivity_days)
                THEN NextEntity /\ UNCHANGED response
                ELSE /\ last_login_dt' = parsed.value
                     /\ days_inactive' = days
                     /\ total_storage_mb' = 0
                     /\ days_ago' = ScanFirst
                     /\ pc' = "usage"
                     /\ UNCHANGED <<idx, response>>
    /\ UNCHANGED <<fetched, inactivity_days, page_token, user_emails, inactive_users,
                   listReqs, listPages, effects>>
    /\ UNCHANGED <<jiraVars, xlsxVars, fetchVars, request, first_page>>

\* One iteration of the candidate-day loop, lines 181-193, and, when the loop
\* ends (break, or the last candidate), the append of lines 195-200.
UsageLookup ==
    /\ pc = "usage"
    /\ \E o \in Failures \cup {Ok(b) : b \in UsageBodies} :
         LET usage_data == safe_get_json(o)
             it == UsageIteration(usage_data.value, total_storage_mb)
         IN  /\ ent' = [ent EXCEPT !.nusage = @ + 1,
                                   !.usageOk = @ \/ IsOk(o),
                                   !.lastOk = IsOk(o),
                                   !.sawPositive = @ \/ FirstQuotaPositive(o),
                                   !.sawNonZero = @ \/ FirstQuotaNonZero(o)]
             /\ IF usage_data.raised \/ it.raised
                THEN /\ Abort(IF usage_data.raised THEN usage_data.exc ELSE it.exc)
                     /\ UNCHANGED <<days_ago, total_storage_mb, inactive_users>>
                ELSE /\ total_storage_mb' = it.value.total
                     /\ UNCHANGED response
                     /\ IF it.value.brk \/ days_ago + 1 = ScanStop
                        THEN /\ inactive_users' = Append(inactive_users,
                                    [email |-> user_emails[idx],
                                     last_login |-> DateOf(last_login_dt),
                                     inactive_days |-> days_inactive,
                                     storage_gb |-> StorageGb(it.value.total)])
                             /\ pc' = "sleep"
                             /\ UNCHANGED days_ago
                        ELSE /\ days_ago' = days_ago + 1
                             /\ UNCHANGED <<pc, inactive_users>>
    /\ UNCHANGED <<fetched, inactivity_days, page_token, user_emails, idx, last_login_dt,
                   days_inactive, delayed, listReqs, listPages, effects>>
    /\ UNCHANGED <<jiraVars, xlsxVars, fetchVars, request, first_page>>

\* Line 202, time.sleep(0.5), the last statement of the loop body.
Sleep ==
    /\ pc = "sleep"
    /\ delayed' = TRUE
    /\ NextEntity
    /\ ent' = NoEnt
    /\ UNCHANGED <<response, fetched, inactivity_days, page_token, user_emails,
                   inactive_users, listReqs, listPages, effects>>
    /\ UNCHANGED <<jiraVars, xlsxVars, fetchVars, request, first_page>>

\* Lines 204-206, after the last entity.
Finish ==
    /\ pc = "loop"
    /\ idx > Len(user_emails)
    /\ inactive_users' = SortByStorageDesc(inactive_users)
    /\ response' = Respond(200, [results |-> inactive_users'])
    /\ pc' = "done"
    /\ UNCHANGED <<fetched, inactivity_days, page_token, user_emails, idx, locals,
                   listReqs, listPages, ent, delayed, effects>>
    /\ UNCHANGED <<jiraVars, xlsxVars, fetchVars, request, first_page>>

Next ==
    \/ UploadEntry
    \/ ListPage
    \/ StartEnrichment
    \/ LoginLookup
    \/ UsageLookup
    \/ Sleep
    \/ Finish

Spec == Init /\ [][Next]_vars

\* ------------------------------------------------ safe_get_json on its own
\* Every outcome of the HTTP call: the responses of the three endpoints, a
\* transport failure, an undecodable body, and statuses other than 200 with
\* bodies of every kind.
OtherStatuses == {201, 204, 401, 403, 404, 429, 500, 503}
FetchBodies == ListBodies(0, 1) \cup LoginBodies \cup UsageBodies
FetchOutcomes ==
    Failures
    \cup {Ok(b) : b \in FetchBodies}
    \cup {[raised |-> FALSE, status_code |-> st, decodable |-> d, body |-> b] :
            st \in OtherStatuses, d \in BOOLEAN,
            b \in {EmptyObj, [error |-> "denied"], [items |-> <<>>]}}

InitFetch ==
    /\ pc = "fetch"
    /\ fetched \in {<<o>> : o \in FetchOutcomes}
    /\ response = NoResponse
    /\ request = NoRequest /\ first_page = "none"
    /\ UploadIdle /\ JiraIdle /\ XlsxIdle /\ FetchIdle

\* res = safe_get_json(url)
FetchCall ==
    /\ pc = "fetch"
    /\ fetched' = <<fetched[1], safe_get_json(fetched[1])>>
    /\ pc' = "fetched"
    /\ UNCHANGED <<response, uploadVars>>
    /\ UNCHANGED <<jiraVars, xlsxVars, fetchVars, request, first_page>>

SpecFetch == InitFetch /\ [][FetchCall]_vars

\* C2: safe_get_json never raises; it returns the decoded body when the call
\* returned status 200 with a decodable body, and {} in every other case.
C2_FetcherTotal ==
    pc = "fetched" =>
        LET o == fetched[1]
            r == fetched[2]
        IN  /\ ~r.raised
            /\ (~o.raised /\ o.status_code = 200 /\ o.decodable) => r.value = o.body
            /\ (o.raised \/ o.status_code # 200 \/ ~o.decodable) => r.value = EmptyObj

C2_Witness ==
    /\ pc = "fetched"
    /\ fetched[1].status_code = 403 /\ fetched[1].decodable /\ fetched[1].body # EmptyObj
    /\ fetched[2] = Return(EmptyObj)

\* ======================================================= claims on /upload
PageEmails(o) ==
    LET us == Get(o.body, "users", <<>>) IN [i \in DOMAIN us |-> us[i].primaryEmail]
CarriesToken(o) == "nextPageToken" \in DOMAIN o.body /\ o.body.nextPageToken # ""
AllPagesFetched == \A k \in DOMAIN listPages : IsOk(listPages[k])

\* C1: when every listing request succeeded, the loop has sent one request
\* per page, the first without a token and the k-th with the token of page
\* k-1; it goes on only while the last page carried a token, stops at the
\* first page without one, and user_emails is the concatenation of the
\* pages' users in page order.
C1_TokenListing ==
    (pc \in {"list", "listed"} /\ AllPagesFetched) =>
        LET N == Len(listPages)
        IN  /\ Len(listReqs) = N
            /\ N >= 1 => listReqs[1] = None
            /\ \A k \in 2..N : listReqs[k] = listPages[k - 1].body.nextPageToken
            /\ \A k \in 1..(N - 1) : CarriesToken(listPages[k])
            /\ pc = "list" /\ N >= 1 => CarriesToken(listPages[N])
            /\ pc = "listed" => N >= 1 /\ ~CarriesToken(listPages[N])
            /\ user_emails = Concat([k \in 1..N |-> PageEmails(listPages[k])])

C1_Witness ==
    /\ pc = "listed" /\ AllPagesFetched
    /\ Len(listPages) = 2
    /\ PageEmails(listPages[1]) # <<>> /\ PageEmails(listPages[2]) # <<>>
    /\ Len(user_emails) = 2

\* C3: in the enrichment loop an abort (500) only ever follows a lookup that
\* succeeded; an entity whose login lookup failed is dropped and the loop
\* moves to the next entity; an entity whose usage lookups all failed is kept
\* with storage_gb = 0; and a run that ends with 200 has visited every entity.
C3_FailedLookupNeverAborts ==
    /\ (pc = "done" /\ response.status = 500 /\ ent.i > 0) => ent.lastOk
    /\ (pc = "loop" /\ ent.login = "failed") =>
            /\ Len(inactive_users) = ent.lenBefore
            /\ idx = ent.i + 1
            /\ ent.nusage = 0
    /\ (pc = "sleep" /\ ~ent.usageOk) =>
            /\ Len(inactive_users) = ent.lenBefore + 1
            /\ inactive_users[Len(inactive_users)].email = user_emails[ent.i]
            /\ inactive_users[Len(inactive_users)].storage_gb = 0
    /\ (pc = "done" /\ response.status = 200) =>
            /\ idx = Len(user_emails) + 1
            /\ "results" \in DOMAIN response.body

C3_Witness ==
    /\ pc = "done" /\ response.status = 200
    /\ Len(user_emails) = 2
    /\ ent.i = 2 /\ ent.login = "failed"
    /\ Len(response.body.results) = 1

\* C4: an entity whose login lookup returned no items, or a first item without
\* id.time, is dropped without an error; an entity reaches the usage scan and
\* the results only if its first login item carried a timestamp.
C4_DropRule ==
    /\ ent.login \in {"no items", "no time"} =>
            /\ pc \in {"loop", "done"}
            /\ Len(inactive_users) = ent.lenBefore
            /\ response.status \in {0, 200}
            /\ ent.nusage = 0
    /\ pc \in {"usage", "sleep"} => ent.login = "time"
    /\ ent.i > 0 =>
            /\ Len(inactive_users) \in {ent.lenBefore, ent.lenBefore + 1}
            /\ Len(inactive_users) = ent.lenBefore + 1 => (pc = "sleep" /\ ent.login = "time")

C4_Witness ==
    /\ pc = "loop" /\ ent.login = "no time"
    /\ ent.i = 2 /\ Len(inactive_users) = 1

\* C5: an entity whose elapsed days are below inactivity_days gets no usage
\* lookup (its login lookup is its only request) and no record, and every
\* record satisfies inactive_days >= inactivity_days.
C5_ThresholdBeforeUsage ==
    /\ (ent.login = "time" /\ ent.days < inactivity_days) =>
            /\ ent.nusage = 0
            /\ pc \notin {"usage", "sleep"}
            /\ Len(inactive_users) = ent.lenBefore
    /\ \A k \in DOMAIN inactive_users : inactive_users[k].inactive_days >= inactivity_days
    /\ (pc = "done" /\ response.status = 200) =>
            \A k \in DOMAIN response.body.results :
                response.body.results[k].inactive_days >= inactivity_days

C5_Witness ==
    /\ pc = "loop" /\ ent.i = 2
    /\ ent.login = "time" /\ ent.days < inactivity_days /\ ent.nusage = 0
    /\ Len(inactive_users) = 1

\* C6 as claimed: the scan goes on only while no candidate's first report
\* held a non-zero quota parameter, and ends with zero storage otherwise.
C6_StopsAtFirstNonZero ==
    /\ pc = "usage" => ~ent.sawNonZero
    /\ (pc = "sleep" /\ ~ent.sawNonZero) =>
            inactive_users[Len(inactive_users)].storage_gb = 0

\* C6, amended: candidates are requested in order from ScanFirst, one lookup
\* each, at most 26; the scan goes on only while no candidate's first report
\* had a first quota parameter greater than zero, and ends right at the first
\* such candidate or at the last candidate; with no non-zero quota value seen
\* in the whole window the storage is zero.
C6_StopsAtFirstPositive ==
    /\ pc = "usage" =>
            /\ days_ago \in ScanFirst..(ScanStop - 1)
            /\ ent.nusage = days_ago - ScanFirst
            /\ ~ent.sawPositive
    /\ pc = "sleep" =>
            /\ ent.nusage = days_ago - ScanFirst + 1
            /\ ent.nusage <= 26
            /\ ent.sawPositive \/ days_ago = 29
            /\ ent.sawPositive => total_storage_mb > 0
            /\ ~ent.sawNonZero =>
                    /\ ent.nusage = 26
                    /\ inactive_users[Len(inactive_users)].storage_gb = 0

C6_Witness ==
    /\ pc = "sleep" /\ ent.sawPositive
    /\ days_ago = 6 /\ ent.nusage = 3
    /\ inactive_users[Len(inactive_users)].storage_gb = 200

\* C7 as claimed: whenever the loop is about to issue the login lookup of an
\* entity other than the first, a delay step has run since the previous
\* entity's login lookup.
C7_DelayBetweenEntities ==
    (pc = "loop" /\ idx > 1 /\ idx <= Len(user_emails)) => delayed

\* =========================================== JIRA productivity statistics
\* A status-category name is a sequence of characters, so that lower() and
\* the substring test are computed on it.
UpperChars == <<"A","B","C","D","E","F","G","H","I","J","K","L","M",
                "N","O","P","Q","R","S","T","U","V","W","X","Y","Z">>
LowerChars == <<"a","b","c","d","e","f","g","h","i","j","k","l","m",
                "n","o","p","q","r","s","t","u","v","w","x","y","z">>
LowerChar(c) ==
    IF \E i \in DOMAIN UpperChars : UpperChars[i] = c
    THEN LowerChars[CHOOSE i \in DOMAIN UpperChars : UpperChars[i] = c]
    ELSE c
Lower(str) == [i \in DOMAIN str |-> LowerChar(str[i])]           \* str.lower()
Contains(str, sub) ==                                            \* sub in str
    \E i \in 0..(Len(str) - Len(sub)) : SubSeq(str, i + 1, i + Len(sub)) = sub

DoneWord == <<"d","o","n","e">>
ProgressWord == <<"p","r","o","g","r","e","s","s">>
StDone == <<"D","o","n","e">>
StDONE == <<"D","O","N","E">>
StInProgress == <<"I","n"," ","P","r","o","g","r","e","s","s">>
StProgressing == <<"P","R","O","G","R","E","S","S","I","N","G">>
StToDo == <<"T","o"," ","D","o">>
StUndone == <<"U","n","d","o","n","e">>

\* Dates are <<year, month, day>>; <<>> is None.
NoDate == <<>>
today == <<2026, 11, 5>>                                         \* date.today()
Yesterday == <<2026, 11, 4>>
LastMonth == <<2026, 10, 28>>
LastYear == <<2025, 11, 20>>
Tomorrow == <<2026, 11, 6>>
NextYear == <<2027, 1, 2>>
DateBefore(a, b) ==                                              \* a < b on dates
    \/ a[1] < b[1]
    \/ a[1] = b[1] /\ a[2] < b[2]
    \/ a[1] = b[1] /\ a[2] = b[2] /\ a[3] < b[3]
FromIso(x) == x.iso              \* datetime.fromisoformat(...), .date() for a timestamp

Unassigned == "Unassigned"

\* One issue of the search response; an absent key is a null field.
RawIssue(who, cat, due, resolved, spent) ==
    [key |-> "PRJ-1",
     fields |->
        [f \in {"status"}
               \cup (IF who = None THEN {} ELSE {"assignee"})
               \cup (IF due = NoDate THEN {} ELSE {"duedate"})
               \cup (IF resolved = NoDate THEN {} ELSE {"resolutiondate"})
               \cup (IF spent = 0 THEN {} ELSE {"timespent"})
         |-> CASE f = "status" -> [name |-> cat, statusCategory |-> [name |-> cat]]
               [] f = "assignee" -> [displayName |-> who, accountId |-> who]
               [] f = "duedate" -> [iso |-> due]
               [] f = "resolutiondate" -> [iso |-> resolved]
               [] f = "timespent" -> spent]]

DisplayNames == {"Ann", "Bob", Unassigned}
RawIssues ==
    {RawIssue(who, cat, due, NoDate, 0) :
        who \in DisplayNames \cup {None}, cat \in {StDone, StInProgress, StToDo},
        due \in {NoDate, Yesterday}}
    \cup {RawIssue("Ann", StDONE, LastMonth, today, 5400),
          RawIssue("Ann", StProgressing, today, NoDate, 1800),
          RawIssue("Bob", StUndone, LastYear, NoDate, 0),
          RawIssue("Bob", StDone, Tomorrow, LastYear, 3600),
          RawIssue(None, StToDo, NextYear, NoDate, 0),
          RawIssue(None, StDONE, Yesterday, LastMonth, 600)}

\* The issue_data record of lines 282-296 (the fields the statistics read).
IssueData(issue) ==
    LET fields == issue.fields
    IN  [key |-> issue.key,
         status_category |-> fields.status.statusCategory.name,
         assignee |-> IF "assignee" \in DOMAIN fields
                      THEN fields.assignee.displayName ELSE Unassigned,
         resolution_date |-> IF "resolutiondate" \in DOMAIN fields
                             THEN FromIso(fields.resolutiondate) ELSE NoDate,
         due_date |-> IF "duedate" \in DOMAIN fields
                      THEN FromIso(fields.duedate) ELSE NoDate,
         time_spent |-> Get(fields, "timespent", 0)]

\* status_category == 'done', after lower()
IsDoneCaseSensitive(status_category) == status_category = DoneWord
IsDone(status_category) == Lower(status_category) = DoneWord

\* 'progress' in status_category, after lower()
IsInProgress(status_category) == Contains(Lower(status_category), ProgressWord)

\* issue['due_date'] and issue['due_date'] < today and status_category != 'done'
IsOverdueOrDueToday(issue) ==
    /\ issue.due_date # NoDate
    /\ ~DateBefore(today, issue.due_date)
    /\ ~IsDone(issue.status_category)
IsOverdue(issue) ==
    /\ issue.due_date # NoDate
    /\ DateBefore(issue.due_date, today)
    /\ ~IsDone(issue.status_category)

\* `if assignee == 'Unassigned': continue`
Skipped(assignee) == assignee = Unassigned

\* the defaultdict's fresh entry, lines 309-313
NewUserStat ==
    [assignee |-> "", total |-> 0, completed |-> 0, in_progress |-> 0, todo |-> 0,
     completion_rate |-> 0, total_time_spent |-> 0, avg_time_per_task |-> 0,
     completed_this_month |-> 0, overdue_tasks |-> 0]

\* One iteration of `for issue in issues`, lines 318-334, on one entry.
FoldInto(st, issue) ==
    LET cat == issue.status_category
        thisMonth == /\ issue.resolution_date # NoDate
                     /\ issue.resolution_date[2] = today[2]
                     /\ issue.resolution_date[1] = today[1]
    IN  [st EXCEPT
            !.assignee = issue.assignee,
            !.total = @ + 1,
            !.total_time_spent = @ + issue.time_spent,
            !.completed = IF IsDone(cat) THEN @ + 1 ELSE @,
            !.completed_this_month = IF IsDone(cat) /\ thisMonth THEN @ + 1 ELSE @,
            !.in_progress = IF ~IsDone(cat) /\ IsInProgress(cat) THEN @ + 1 ELSE @,
            !.todo = IF ~IsDone(cat) /\ ~IsInProgress(cat) THEN @ + 1 ELSE @,
            !.overdue_tasks = IF IsOverdue(issue) THEN @ + 1 ELSE @]

\* Lines 335-339 with the quotients cut off instead of rounded.
FinalizedTruncated(st) ==
    [st EXCEPT
        !.completion_rate = IF st.total > 0 THEN (st.completed * 1000) \div st.total ELSE @,
        !.avg_time_per_task = IF st.completed > 0
                              THEN st.total_time_spent \div st.completed ELSE @]

\* Lines 335-339 on one entry: rate in tenths of a percent, average in seconds.
Finalized(st) ==
    [st EXCEPT
        !.completion_rate = IF st.total > 0
                            THEN RoundHalfEven(st.completed * 1000, st.total) ELSE @,
        !.avg_time_per_task = IF st.completed > 0
                              THEN RoundHalfEven(st.total_time_spent, st.completed) ELSE @]

\* Lines 342-353.
calculate_overall_stats(list) ==
    LET total == Len(list)
        completed == Cardinality({k \in DOMAIN list : IsDone(list[k].status_category)})
        in_progress ==
            Cardinality({k \in DOMAIN list : IsInProgress(list[k].status_category)})
    IN  [total |-> total, completed |-> completed, in_progress |-> in_progress,
         todo |-> total - completed - in_progress,
         overdue |-> Cardinality({k \in DOMAIN list : IsOverdue(list[k])}),
         completion_rate |-> IF total > 0 THEN RoundHalfEven(completed * 1000, total)
                             ELSE 0]

InitStats ==
    /\ pc = "analyze"
    /\ \E list \in SeqsUpTo(RawIssues, MaxIssues) :
         jira_data = [issues |-> list, total |-> Len(list)]
    /\ issues = <<>> /\ stats = EmptyObj /\ pos = 0
    /\ response = NoResponse /\ fetched = <<>>
    /\ request = NoRequest /\ first_page = "none"
    /\ UploadIdle /\ XlsxIdle /\ FetchIdle

\* fields['status'] of line 285 finds its key
HasStatus(issue) == "status" \in DOMAIN issue.fields

\* analyze_productivity up to the call of calculate_user_stats, lines 276-316;
\* an issue without 'status' raises KeyError, which the handler answers with 500.
Analyze ==
    /\ pc = "analyze"
    /\ IF \A i \in DOMAIN jira_data.issues : HasStatus(jira_data.issues[i])
       THEN /\ issues' = [i \in DOMAIN jira_data.issues |-> IssueData(jira_data.issues[i])]
            /\ stats' = EmptyObj
            /\ pos' = 1
            /\ pc' = "fold"
            /\ UNCHANGED response
       ELSE /\ Abort("KeyError")
            /\ UNCHANGED <<issues, stats, pos>>
    /\ UNCHANGED <<jira_data, fetched, uploadVars, xlsxVars, fetchVars,
                   request, first_page>>

\* One iteration of the loop of calculate_user_stats, lines 317-334.
FoldIssue ==
    /\ pc = "fold"
    /\ pos <= Len(issues)
    /\ LET issue == issues[pos]
           assignee == issue.assignee
       IN  stats' = IF Skipped(assignee) THEN stats
                    ELSE [a \in DOMAIN stats \cup {assignee} |->
                            IF a = assignee
                            THEN FoldInto(Get(stats, a, NewUserStat), issue)
                            ELSE stats[a]]
    /\ pos' = pos + 1
    /\ UNCHANGED <<pc, jira_data, issues, response, fetched, uploadVars, xlsxVars, fetchVars,
                   request, first_page>>

\* The second loop of calculate_user_stats, lines 335-340.
FinalizeRatios ==
    /\ pc = "fold"
    /\ pos > Len(issues)
    /\ stats' = [a \in DOMAIN stats |-> Finalized(stats[a])]
    /\ pc' = "report"
    /\ UNCHANGED <<pos, jira_data, issues, response, fetched, uploadVars, xlsxVars, fetchVars,
                   request, first_page>>

\* calculate_overall_stats and the response, lines 300-306 and 372-377.
Report ==
    /\ pc = "report"
    /\ response' = Respond(200, [summary |-> calculate_overall_stats(issues),
                                 user_stats |-> stats])
    /\ pc' = "done"
    /\ UNCHANGED <<pos, jira_data, issues, stats, fetched, uploadVars, xlsxVars, fetchVars,
                   request, first_page>>

NextStats ==
    \/ Analyze
    \/ FoldIssue
    \/ FinalizeRatios
    \/ Report

SpecStats == InitStats /\ [][NextStats]_vars

\* ============================================== claims on the statistics
\* What the claims say of an issue of the search response, read off the raw
\* issue: its bucket from its category name, whether it has an assignee,
\* whether it is overdue.
ExpectedBucket(raw) ==
    LET cat == raw.fields.status.statusCategory.name
    IN  IF cat \in {StDone, StDONE} THEN "completed"
        ELSE IF cat \in {StInProgress, StProgressing} THEN "in_progress"
        ELSE "todo"
HasAssignee(raw) == "assignee" \in DOMAIN raw.fields
ExpectedOverdue(raw) ==
    /\ "duedate" \in DOMAIN raw.fields
    /\ raw.fields.duedate.iso \in {Yesterday, LastMonth, LastYear}
    /\ ExpectedBucket(raw) # "completed"

Folded == IF pc = "analyze" THEN {} ELSE {k \in DOMAIN jira_data.issues : k < pos}
IssuesOf(a) ==
    {k \in Folded : HasAssignee(jira_data.issues[k])
                    /\ jira_data.issues[k].fields.assignee.displayName = a}
InBucket(ks, b) == Cardinality({k \in ks : ExpectedBucket(jira_data.issues[k]) = b})
Reported == pc = "done" /\ response.status = 200 /\ "summary" \in DOMAIN response.body

\* C8: every group's completed, in_progress and todo count the group's issues
\* of that bucket, each issue in exactly one, so they add up to total; the
\* overall counts do the same over all issues, with todo >= 0.
C8_BucketsPartition ==
    /\ \A a \in DOMAIN stats :
            /\ stats[a].total = Cardinality(IssuesOf(a))
            /\ stats[a].completed = InBucket(IssuesOf(a), "completed")
            /\ stats[a].in_progress = InBucket(IssuesOf(a), "in_progress")
            /\ stats[a].todo = InBucket(IssuesOf(a), "todo")
            /\ stats[a].completed + stats[a].in_progress + stats[a].todo = stats[a].total
    /\ Reported =>
            LET sum == response.body.summary
                all == DOMAIN jira_data.issues
            IN  /\ sum.total = Cardinality(all)
                /\ sum.completed = InBucket(all, "completed")
                /\ sum.in_progress = InBucket(all, "in_progress")
                /\ sum.todo = InBucket(all, "todo")
                /\ sum.completed + sum.in_progress + sum.todo = sum.total
                /\ sum.todo >= 0

C8_Witness ==
    /\ Reported
    /\ "Ann" \in DOMAIN stats
    /\ stats["Ann"].total = 2 /\ stats["Ann"].completed = 1 /\ stats["Ann"].in_progress = 1
    /\ jira_data.issues[1].fields.status.statusCategory.name = StDONE
    /\ jira_data.issues[2].fields.status.statusCategory.name = StProgressing

\* C9: a group's overdue_tasks and the overall overdue count exactly the
\* issues with a due date before today that are not in the completed bucket.
C9_OverdueRule ==
    /\ \A a \in DOMAIN stats :
            stats[a].overdue_tasks =
                Cardinality({k \in IssuesOf(a) : ExpectedOverdue(jira_data.issues[k])})
    /\ Reported =>
            response.body.summary.overdue =
                Cardinality({k \in DOMAIN jira_data.issues :
                                ExpectedOverdue(jira_data.issues[k])})

C9_Witness ==
    /\ Reported
    /\ Len(issues) = 2
    /\ issues[1].assignee = "Bob" /\ issues[1].due_date = Yesterday
    /\ issues[1].status_category = StInProgress
    /\ issues[2].assignee = "Bob" /\ issues[2].due_date = Yesterday
    /\ issues[2].status_category = StDone
    /\ stats["Bob"].overdue_tasks = 1
    /\ response.body.summary.overdue = 1

RECURSIVE SumTotals(_, _)
SumTotals(st, names) ==
    IF names = {} THEN 0
    ELSE LET a == CHOOSE x \in names : TRUE
         IN  st[a].total + SumTotals(st, names \ {a})

\* C10 as claimed: issues without an assignee are in no group, every issue is
\* in the overall stats, and the overall total is the sum of the groups'
\* totals plus the number of issues without an assignee.
C10_UnassignedExcluded ==
    Reported =>
        LET sum == response.body.summary
            groups == response.body.user_stats
            unassigned == {k \in DOMAIN jira_data.issues : ~HasAssignee(jira_data.issues[k])}
        IN  /\ sum.total = Len(jira_data.issues)
            /\ sum.total = SumTotals(groups, DOMAIN groups) + Cardinality(unassigned)

\* ------------------------------------------- the statistics of longer lists
\* Lists of up to MaxRecords issues, most of one assignee, with the time
\* spent chosen so that the quotients of lines 337 and 339 need rounding.
MaxRecords == 4
RatioIssues ==
    {RawIssue("Ann", StDone, NoDate, NoDate, 0), RawIssue("Ann", StDone, NoDate, NoDate, 1),
     RawIssue("Ann", StToDo, NoDate, NoDate, 0), RawIssue("Ann", StInProgress, NoDate, NoDate, 2),
     RawIssue("Bob", StDone, NoDate, NoDate, 1)}

InitRatios ==
    /\ pc = "analyze"
    /\ \E list \in SeqsUpTo(RatioIssues, MaxRecords) :
         jira_data = [issues |-> list, total |-> Len(list)]
    /\ issues = <<>> /\ stats = EmptyObj /\ pos = 0
    /\ response = NoResponse /\ fetched = <<>>
    /\ request = NoRequest /\ first_page = "none"
    /\ UploadIdle /\ XlsxIdle /\ FetchIdle

SpecRatios == InitRatios /\ [][NextStats]_vars

\* r is a nearest integer to n / d
Nearest(r, n, d) == 2 * (r * d - n) <= d /\ 2 * (n - r * d) <= d
TimeSpent(raw) == Get(raw.fields, "timespent", 0)
RECURSIVE SumTime(_)
SumTime(ks) ==
    IF ks = {} THEN 0
    ELSE LET k == CHOOSE x \in ks : TRUE
         IN  TimeSpent(jira_data.issues[k]) + SumTime(ks \ {k})

\* C11: while records are being folded no ratio has been computed; once the
\* fold is over every group's counters are those of all its records, its
\* completion_rate (in tenths of a percent) is a nearest tenth to
\* completed / total x 100 and its avg_time_per_task a nearest integer to
\* total_time_spent / completed, 0 when nothing is completed; four records of
\* one assignee, three Done and one To Do, give 75.0 with counters 3, 0, 1.
C11_RatioFinalization ==
    /\ pc = "fold" =>
            \A a \in DOMAIN stats :
                stats[a].completion_rate = 0 /\ stats[a].avg_time_per_task = 0
    /\ pc \in {"report", "done"} =>
            \A a \in DOMAIN stats :
                LET st == stats[a]
                IN  /\ st.total = Cardinality(IssuesOf(a)) /\ st.total > 0
                    /\ st.completed = InBucket(IssuesOf(a), "completed")
                    /\ st.total_time_spent = SumTime(IssuesOf(a))
                    /\ Nearest(st.completion_rate, st.completed * 1000, st.total)
                    /\ st.completed = 0 => st.avg_time_per_task = 0
                    /\ st.completed > 0 =>
                            Nearest(st.avg_time_per_task, st.total_time_spent, st.completed)
    /\ Reported => response.body.user_stats = stats
    /\ (pc \in {"report", "done"}
        /\ Len(jira_data.issues) = 4
        /\ \A k \in 1..4 : jira_data.issues[k].fields.assignee.displayName = "Ann"
        /\ InBucket(1..4, "completed") = 3 /\ InBucket(1..4, "todo") = 1) =>
            /\ stats["Ann"].completion_rate = 750
            /\ stats["Ann"].completed = 3 /\ stats["Ann"].todo = 1
            /\ stats["Ann"].in_progress = 0

C11_Witness ==
    /\ Reported
    /\ Len(jira_data.issues) = 4
    /\ \A k \in 1..4 : jira_data.issues[k].fields.assignee.displayName = "Ann"
    /\ InBucket(1..4, "completed") = 3 /\ InBucket(1..4, "todo") = 1
    /\ response.body.user_stats["Ann"].completion_rate = 750
    /\ response.body.user_stats["Ann"].avg_time_per_task = 0
    /\ response.body.user_stats["Ann"].total_time_spent = 1

\* ================================================= /analyze-xlsx: the sheet
\* A duration cell is its text split at ":", each part a number or other text.
HMS(h, mi, sec) == <<Num(h), Num(mi), Num(sec)>>
NotATime == <<[text |-> "n/a"]>>
TwoParts == <<Num(90), Num(0)>>

\* parse_duration: h, m, s = map(int, str(x).split(":")), 0 on any exception
parse_duration(duration_str) ==
    IF Len(duration_str) = 3 /\ \A i \in 1..3 : "num" \in DOMAIN duration_str[i]
    THEN duration_str[1].num * 3600 + duration_str[2].num * 60 + duration_str[3].num
    ELSE 0

\* pd.to_numeric(col, errors='coerce').fillna(0) on one cell
ToNumeric(cell) == IF "num" \in DOMAIN cell THEN cell.num ELSE 0

SecondsPerHour == 3600
\* (secs / 3600).round(2), in hundredths of an hour
TotalHours(secs) == RoundHalfEven(secs * 100, SecondsPerHour)

Inf == [text |-> "Inf"]
\* the lambdas of lines 65-66 and 70-71 with the test of the denominator dropped
RatioUnguarded(numerator, denominator) ==
    Num(RoundHalfEven(numerator * 100, IF denominator = 0 THEN 1 ELSE denominator))
\* round(a / b, 2) if b != 0 else "Inf", in hundredths
Ratio(numerator, denominator) ==
    IF denominator # 0 THEN Num(RoundHalfEven(numerator * 100, denominator)) ELSE Inf

rename_map == [c \in {"Inbound total no.of Calls", "Outbound total no.of Calls"} |->
                 IF c = "Inbound total no.of Calls" THEN "Inbound Calls" ELSE "Outbound Calls"]
required == <<"Name", "Total Duration", "Missed Calls", "Voicemails",
              "Inbound Calls", "Outbound Calls", "Inbound Duration", "Outbound Duration">>
Required == {required[i] : i \in DOMAIN required}

\* One row of the sheet under the renamed headers.
Row(name, total, missed, vm, inb, outb, induration, outduration) ==
    [c \in Required |->
        CASE c = "Name" -> name
          [] c = "Total Duration" -> total
          [] c = "Missed Calls" -> missed
          [] c = "Voicemails" -> vm
          [] c = "Inbound Calls" -> inb
          [] c = "Outbound Calls" -> outb
          [] c = "Inbound Duration" -> induration
          [] c = "Outbound Duration" -> outduration]
Blank == [absent |-> TRUE]
RowPool ==
    {Row("A", HMS(10, 0, 0), Num(0), Num(0), Num(6), Num(4), HMS(0, 30, 0), HMS(1, 0, 0)),
     Row("B", HMS(10, 0, 0), Blank, Num(0), Num(5), Num(0), HMS(0, 10, 0), HMS(0, 0, 0)),
     Row("C", HMS(1, 0, 0), Num(60), Num(40), Num(1), Num(3), HMS(0, 20, 0), NotATime),
     Row("D", HMS(0, 20, 15), [text |-> "-"], Num(2), Blank, Num(2), TwoParts, HMS(0, 0, 45))}

MaxRows == 4
\* What pd.read_excel returns: the header and the rows under it.  The header
\* is the exported one (long call-count names), the renamed one, or one
\* lacking a column.
Headers ==
    {Required,
     (Required \ {"Inbound Calls", "Outbound Calls"})
        \cup {"Inbound total no.of Calls", "Outbound total no.of Calls"},
     Required \ {"Voicemails"},
     Required \ {"Name", "Outbound Duration"}}
Canonical(c) == IF c \in DOMAIN rename_map THEN rename_map[c] ELSE c
Sheet(header, rows) ==
    [columns |-> header,
     rows |-> [i \in DOMAIN rows |-> [c \in header |-> rows[i][Canonical(c)]]]]
Sheets ==
    {Sheet(Required, rows) : rows \in SeqsUpTo(RowPool, MaxRows)}
    \cup {Sheet(h, rows) : h \in Headers, rows \in {<<>>} \cup {<<r>> : r \in RowPool}}

\* request.files of /analyze-xlsx: no 'file' part, a part with no file chosen,
\* a file that is not a workbook, or a workbook.
XlsxRequests ==
    {[files |-> EmptyObj]}
    \cup {[files |-> [file |-> f]] : f \in {[filename |-> ""], [filename |-> "notes.txt"]}}
    \cup {[files |-> [file |-> [filename |-> "calls.xlsx", sheet |-> sh]]] : sh \in Sheets}

\* df.rename(columns=rename_map)
Renamed(sheet) ==
    [columns |-> {Canonical(c) : c \in sheet.columns},
     rows |-> [i \in DOMAIN sheet.rows |->
                [c \in {Canonical(x) : x \in sheet.columns} |->
                    sheet.rows[i][CHOOSE x \in sheet.columns : Canonical(x) = c]]]]

\* the first required column the frame lacks, in the order of `required`
MissingColumns(columns) == {i \in DOMAIN required : required[i] \notin columns}
FirstMissing(columns) ==
    required[CHOOSE i \in MissingColumns(columns) :
                \A j \in MissingColumns(columns) : i <= j]

\* ------------------------------------------- /analyze-xlsx: derived columns
DerivedColumns ==
    {"Total Duration (secs)", "Inbound Duration (secs)", "Outbound Duration (secs)",
     "Total Hours", "Total Missed or Voicemails",
     "Call Ratio (Inbound/Outbound)", "Duration Ratio (Inbound/Outbound)"}
NumericColumns == {"Missed Calls", "Voicemails", "Inbound Calls", "Outbound Calls"}

\* Lines 52-72 on one row.
Derived(row) ==
    LET total == parse_duration(row["Total Duration"])
        inbound == parse_duration(row["Inbound Duration"])
        outbound == parse_duration(row["Outbound Duration"])
    IN  [c \in Required \cup DerivedColumns |->
            CASE c \in NumericColumns -> ToNumeric(row[c])
              [] c = "Total Duration (secs)" -> total
              [] c = "Inbound Duration (secs)" -> inbound
              [] c = "Outbound Duration (secs)" -> outbound
              [] c = "Total Hours" -> TotalHours(total)
              [] c = "Total Missed or Voicemails" ->
                    ToNumeric(row["Missed Calls"]) + ToNumeric(row["Voicemails"])
              [] c = "Call Ratio (Inbound/Outbound)" ->
                    Ratio(ToNumeric(row["Inbound Calls"]), ToNumeric(row["Outbound Calls"]))
              [] c = "Duration Ratio (Inbound/Outbound)" -> Ratio(inbound, outbound)
              [] OTHER -> row[c]]

\* ------------------------------------------------ /analyze-xlsx: selection
RECURSIVE InsertAsc(_, _)
InsertAsc(sorted, x) ==
    IF sorted = <<>> THEN <<x>>
    ELSE IF Head(sorted) <= x THEN <<Head(sorted)>> \o InsertAsc(Tail(sorted), x)
         ELSE <<x>> \o sorted
RECURSIVE SortAsc(_)
SortAsc(values) ==
    IF values = <<>> THEN <<>>
    ELSE InsertAsc(SortAsc(Tail(values)), Head(values))

\* Series.quantile(0.75), linear interpolation between the two order
\* statistics around position 0.75 * (n - 1); q4 is four times the quantile.
Quantile75(values) ==
    IF values = <<>> THEN NaN
    ELSE LET v == SortAsc(values)
             h == 3 * (Len(values) - 1)
             lo == h \div 4 + 1
             hi == IF h % 4 = 0 THEN lo ELSE lo + 1
         IN  [nan |-> FALSE, q4 |-> 4 * v[lo] + (h % 4) * (v[hi] - v[lo])]

\* value >= threshold; no value is >= NaN
AtLeast(value, threshold) == ~threshold.nan /\ 4 * value >= threshold.q4

Column(frame, c) == [i \in DOMAIN frame |-> frame[i][c]]

\* the mask of lines 78-79 with & in place of |
QualifiesOnBoth(row, hours, missed) ==
    /\ AtLeast(row["Total Hours"], hours)
    /\ AtLeast(row["Total Missed or Voicemails"], missed)
\* the mask of lines 78-79
Qualifies(row, hours, missed) ==
    \/ AtLeast(row["Total Hours"], hours)
    \/ AtLeast(row["Total Missed or Voicemails"], missed)

\* -------------------------------------------------- /analyze-xlsx: ranking
\* the order of line 83 with rows of equal keys put in reverse
RanksBeforeOrTies(a, b) ==
    \/ a["Total Hours"] > b["Total Hours"]
    \/ /\ a["Total Hours"] = b["Total Hours"]
       /\ a["Total Missed or Voicemails"] >= b["Total Missed or Voicemails"]

\* a goes before b under by=["Total Hours", "Total Missed or Voicemails"],
\* ascending=[False, False]
RanksBefore(a, b) ==
    \/ a["Total Hours"] > b["Total Hours"]
    \/ /\ a["Total Hours"] = b["Total Hours"]
       /\ a["Total Missed or Voicemails"] > b["Total Missed or Voicemails"]

RECURSIVE InsertRanked(_, _)
InsertRanked(sorted, x) ==
    IF sorted = <<>> THEN <<x>>
    ELSE IF RanksBefore(x, Head(sorted)) THEN <<x>> \o sorted
         ELSE <<Head(sorted)>> \o InsertRanked(Tail(sorted), x)
\* sort_values with two keys: a stable sort
RECURSIVE SortRanked(_)
SortRanked(frame) ==
    IF frame = <<>> THEN <<>>
    ELSE InsertRanked(SortRanked(SubSeq(frame, 1, Len(frame) - 1)), frame[Len(frame)])

OutputColumns == {"Name", "Total Hours", "Missed Calls", "Voicemails",
                  "Call Ratio (Inbound/Outbound)", "Duration Ratio (Inbound/Outbound)"}
\* top_users_sorted[[...]].to_dict(orient='records')
ToRecords(frame) == [i \in DOMAIN frame |-> [c \in OutputColumns |-> frame[i][c]]]

\* ------------------------------------------------- /analyze-xlsx: handler
\* except Exception as e: return jsonify({"error": "Internal Server Error", ...}), 500
XlsxAbort(e) ==
    /\ response' = Respond(500, [error |-> "Internal Server Error", details |-> e])
    /\ pc' = "done"

xlsxFrame == <<fetched, uploadVars, jiraVars, fetchVars, first_page>>

\* Lines 32-50.  request.files['file'] raises when the request has no such
\* part; a part with no file chosen is falsy; read_excel raises on a file
\* that is not a workbook.
XlsxEntry ==
    /\ pc = "entry"
    /\ \E req \in XlsxRequests :
         /\ request' = req
         /\ IF "file" \notin DOMAIN req.files
            THEN XlsxAbort("BadRequestKeyError") /\ UNCHANGED df
            ELSE IF req.files.file.filename = ""
            THEN /\ response' = Respond(400, [error |-> <<"No file uploaded">>])
                 /\ pc' = "done"
                 /\ UNCHANGED df
            ELSE IF "sheet" \notin DOMAIN req.files.file
            THEN XlsxAbort("ValueError") /\ UNCHANGED df
            ELSE LET frame == Renamed(req.files.file.sheet)
                 IN  IF MissingColumns(frame.columns) # {}
                     THEN /\ response' = Respond(400,
                                [error |-> <<"Missing column: ", FirstMissing(frame.columns)>>])
                          /\ pc' = "done"
                          /\ UNCHANGED df
                     ELSE /\ df' = frame.rows
                          /\ pc' = "derive"
                          /\ UNCHANGED response
    /\ UNCHANGED <<high_hours_threshold, high_missed_vm_threshold, top_users>>
    /\ UNCHANGED xlsxFrame

\* Lines 52-72.  On a frame without rows df.apply(..., axis=1) returns a
\* frame, not a column, and assigning it either raises or adds an empty
\* column, depending on the pandas installed.
XlsxDerive ==
    /\ pc = "derive"
    /\ \/ /\ df' = [i \in DOMAIN df |-> Derived(df[i])]
          /\ pc' = "select"
          /\ UNCHANGED response
       \/ /\ df = <<>>
          /\ XlsxAbort("ValueError")
          /\ UNCHANGED df
    /\ UNCHANGED <<request, high_hours_threshold, high_missed_vm_threshold, top_users>>
    /\ UNCHANGED xlsxFrame

\* Lines 74-80.
XlsxSelect ==
    /\ pc = "select"
    /\ high_hours_threshold' = Quantile75(Column(df, "Total Hours"))
    /\ high_missed_vm_threshold' = Quantile75(Column(df, "Total Missed or Voicemails"))
    /\ top_users' = SelectSeq(df, LAMBDA row :
                        Qualifies(row, high_hours_threshold', high_missed_vm_threshold'))
    /\ pc' = "rank"
    /\ UNCHANGED <<request, response, df>>
    /\ UNCHANGED xlsxFrame

\* Lines 82-92.
XlsxRank ==
    /\ pc = "rank"
    /\ response' = Respond(200, [users |-> ToRecords(SortRanked(top_users))])
    /\ pc' = "done"
    /\ UNCHANGED <<request, xlsxVars>>
    /\ UNCHANGED xlsxFrame

NextXlsx ==
    \/ XlsxEntry
    \/ XlsxDerive
    \/ XlsxSelect
    \/ XlsxRank

SpecXlsx == Init /\ [][NextXlsx]_vars

\* ============================================== claims on /analyze-xlsx
XlsxReported == pc = "done" /\ response.status = 200 /\ "users" \in DOMAIN response.body

\* th is a 75th percentile of the values: more than three quarters of the
\* gaps between the ordered values lie at or below it, more than a quarter
\* at or above it.
IsPercentile75(values, th) ==
    /\ ~th.nan
    /\ 4 * Cardinality({i \in DOMAIN values : 4 * values[i] <= th.q4}) > 3 * (Len(values) - 1)
    /\ 4 * Cardinality({i \in DOMAIN values : 4 * values[i] >= th.q4}) > Len(values) - 1

Occurrences(list, x) == Cardinality({i \in DOMAIN list : list[i] = x})
SameRows(a, b) ==
    /\ Len(a) = Len(b)
    /\ \A i \in DOMAIN a : Occurrences(a, a[i]) = Occurrences(b, a[i])

\* C12: once the rows are selected, each threshold is the 75th percentile of
\* its column over all rows of df, top_users is exactly the rows of df (in
\* order) whose Total Hours reach the hours threshold or whose missed-or-
\* voicemail total reaches the other one, and the response holds those rows
\* and no others; for hours 10, 10, 10, 1 and totals 0, 0, 0, 100 the fourth
\* row is selected.
C12_ThresholdOrSelection ==
    (pc = "rank" \/ XlsxReported) =>
        LET hours == Column(df, "Total Hours")
            missed == Column(df, "Total Missed or Voicemails")
            kept == {i \in DOMAIN df :
                        \/ 4 * hours[i] >= high_hours_threshold.q4
                        \/ 4 * missed[i] >= high_missed_vm_threshold.q4}
        IN  /\ df # <<>> => /\ IsPercentile75(hours, high_hours_threshold)
                            /\ IsPercentile75(missed, high_missed_vm_threshold)
            /\ Len(top_users) = Cardinality(kept)
            /\ top_users = SelectSeq(df, LAMBDA row :
                    \E i \in kept : df[i] = row)
            /\ \A i \in DOMAIN df \ kept : \A k \in DOMAIN top_users : top_users[k] # df[i]
            /\ XlsxReported => SameRows(response.body.users, ToRecords(top_users))
            /\ (hours = <<1000, 1000, 1000, 100>> /\ missed = <<0, 0, 0, 100>>) =>
                    /\ 4 * hours[4] < high_hours_threshold.q4
                    /\ \E k \in DOMAIN top_users : top_users[k] = df[4]

C12_Witness ==
    /\ XlsxReported
    /\ Column(df, "Total Hours") = <<1000, 1000, 1000, 100>>
    /\ Column(df, "Total Missed or Voicemails") = <<0, 0, 0, 100>>
    /\ Len(response.body.users) = 4
    /\ response.body.users[4]["Name"] = "C"

\* field is "Inf" when the denominator is 0, else a nearest hundredth to the quotient
RatioField(field, numerator, denominator) ==
    /\ denominator = 0 => field = Inf
    /\ denominator # 0 =>
            /\ "num" \in DOMAIN field
            /\ Nearest(field.num, numerator * 100, denominator)

\* the sheet of the request, when it is a workbook with every required column
FullSheet ==
    /\ "files" \in DOMAIN request /\ "file" \in DOMAIN request.files
    /\ "sheet" \in DOMAIN request.files.file
    /\ MissingColumns({Canonical(c) : c \in request.files.file.sheet.columns}) = {}

\* C14: after the derived columns are computed every row's call ratio is the
\* sentinel "Inf" when its Outbound Calls are 0 and the quotient rounded to
\* hundredths otherwise, and likewise its duration ratio on the outbound
\* seconds; the response carries the same fields; and a sheet with rows
\* never ends in the 500 response, whatever its denominators.
C14_InfSentinel ==
    /\ (pc \in {"select", "rank"} \/ XlsxReported) =>
            \A i \in DOMAIN df :
                /\ RatioField(df[i]["Call Ratio (Inbound/Outbound)"],
                              df[i]["Inbound Calls"], df[i]["Outbound Calls"])
                /\ RatioField(df[i]["Duration Ratio (Inbound/Outbound)"],
                              df[i]["Inbound Duration (secs)"],
                              df[i]["Outbound Duration (secs)"])
    /\ XlsxReported =>
            \A k \in DOMAIN response.body.users :
                \E i \in DOMAIN df :
                    \A c \in OutputColumns : response.body.users[k][c] = df[i][c]
    /\ (pc = "done" /\ FullSheet /\ request.files.file.sheet.rows # <<>>) =>
            response.status = 200

C14_Witness ==
    /\ XlsxReported
    /\ Len(response.body.users) = 3
    /\ response.body.users[1]["Name"] = "A"
    /\ response.body.users[1]["Call Ratio (Inbound/Outbound)"] = Num(150)
    /\ response.body.users[2]["Name"] = "B"
    /\ response.body.users[2]["Call Ratio (Inbound/Outbound)"] = Inf
    /\ response.body.users[2]["Duration Ratio (Inbound/Outbound)"] = Inf
    /\ response.body.users[3]["Name"] = "C"
    /\ response.body.users[3]["Call Ratio (Inbound/Outbound)"] = Num(33)
    /\ response.body.users[3]["Duration Ratio (Inbound/Outbound)"] = Inf

\* ============================================ /analyze-jira: the listing
batch_size == 2      \* issues asked for per search request
MaxRemote == 4       \* issues the JIRA server holds for the query

\* The server's issues in its order (ORDER BY created DESC), told apart by key.
IssueKeys == <<"PRJ-1", "PRJ-2", "PRJ-3", "PRJ-4", "PRJ-5", "PRJ-6", "PRJ-7", "PRJ-8">>
IssueAt(i) ==
    [RawIssue(IF i % 2 = 1 THEN "Ann" ELSE None,
              IF i % 3 = 1 THEN StDone ELSE IF i % 3 = 2 THEN StToDo ELSE StInProgress,
              IF i % 2 = 0 THEN Yesterday ELSE NoDate, NoDate, 0)
     EXCEPT !.key = IssueKeys[i]]
\* an issue without fields.status
Malformed == [key |-> "PRJ-0", fields |-> EmptyObj]

\* up to k issues of a server holding n, from position `from` (0-based) on
Slice(from, k, n) ==
    [i \in 1..(IF n - from < k THEN (IF n > from THEN n - from ELSE 0) ELSE k) |->
        IssueAt(from + i)]

\* How many issues a page may hold: none, one, as many as asked for, one more.
PageLengths == {0, 1, batch_size, batch_size + 1}

\* The bodies a search request for startAt = from may be answered with by a
\* server holding n issues: a slice from the position asked for or from the
\* top (a server that ignores startAt), of any of the lengths, with a
\* 'total' that is right, zero or one too many; a body lacking a key; a
\* page holding a malformed issue.
SearchBodies(n, from) ==
    {[total |-> t, issues |-> Slice(f, k, n)] :
        t \in {0, n, n + 1}, f \in {from, 0}, k \in PageLengths}
    \cup {[issues |-> Slice(from, batch_size, n)], [total |-> n],
          [total |-> n, issues |-> <<Malformed>>]}

\* the answer is the slice asked for, of 1..maxResults issues (none only past
\* the end), with the true total
Faithful(body, n, from) ==
    /\ "total" \in DOMAIN body /\ "issues" \in DOMAIN body
    /\ body.total = n
    /\ Len(body.issues) <= batch_size
    /\ body.issues = Slice(from, Len(body.issues), n)
    /\ from < n => Len(body.issues) >= 1

\* request.json of /analyze-jira: a JSON object, or a body that is not JSON
Credentials == [base_url |-> "https://jira.x/", username |-> "ann", api_token |-> "tok"]
Without(o, k) == [f \in DOMAIN o \ {k} |-> o[f]]
JiraRequests ==
    {[json |-> j] :
        j \in {Credentials, EmptyObj, [Credentials EXCEPT !.username = ""],
               [f \in DOMAIN Credentials \cup {"project_key"} |->
                    IF f = "project_key" THEN "PRJ" ELSE Credentials[f]]}
              \cup {Without(Credentials, k) : k \in DOMAIN Credentials}}
    \cup {[data |-> "not json"]}

\* what a failed search request raises: raise_for_status or the transport
FetchError(o) ==
    IF o.raised THEN "ConnectionError"
    ELSE IF o.status_code # 200 THEN "HTTPError" ELSE "JSONDecodeError"

jiraFrame == <<fetched, uploadVars, xlsxVars>>

\* Lines 359-369 and 225-229.
JiraEntry ==
    /\ pc = "entry"
    /\ \E req \in JiraRequests :
         /\ request' = req
         /\ IF "json" \notin DOMAIN req
            THEN Abort("UnsupportedMediaType") /\ UNCHANGED fetchVars
            ELSE IF \E k \in {"base_url", "username", "api_token"} :
                        ~Truthy(Get(req.json, k, None))
            THEN /\ response' = Respond(400, [error |-> "Missing required parameters."])
                 /\ pc' = "done"
                 /\ UNCHANGED fetchVars
            ELSE /\ \E n \in 0..MaxRemote : remote' = n
                 /\ all_issues' = <<>> /\ start_at' = 0
                 /\ total_issues' = 0 /\ fetched_count' = 0
                 /\ pc' = "post"
                 /\ UNCHANGED <<response, posts, faithful>>
    /\ UNCHANGED <<jiraVars, first_page>>
    /\ UNCHANGED jiraFrame

\* the test of line 261 without its second disjunct
ListingDoneCountOnly(count, offset, total, page) == count >= total
\* `if fetched_count >= total_issues or len(data['issues']) == 0: break`
ListingDone(count, offset, total, page) == count >= total \/ Len(page) = 0

\* start_at += batch_size
NextOffset(offset, page) == offset + batch_size

\* One iteration of `while True`, lines 245-263.  A failed request raises
\* (raise_for_status, the transport, json()); fetch_all_issues prints and
\* re-raises it and the handler answers 500, as it does for the KeyError of
\* a body without 'total' or 'issues'.
FetchPage ==
    /\ pc = "post"
    /\ \E o \in Failures \cup {Ok(b) : b \in SearchBodies(remote, start_at)} :
         LET data == o.body
         IN  /\ posts' = Append(posts, IsOk(o))
             /\ first_page' = IF posts # <<>> THEN first_page
                               ELSE IF IsOk(o) THEN "ok" ELSE "failed"
             /\ IF ~IsOk(o)
                THEN /\ Abort(FetchError(o))
                     /\ UNCHANGED <<all_issues, start_at, total_issues, fetched_count, faithful>>
                ELSE IF (start_at = 0 /\ "total" \notin DOMAIN data)
                        \/ "issues" \notin DOMAIN data
                THEN /\ Abort("KeyError")
                     /\ faithful' = FALSE
                     /\ UNCHANGED <<all_issues, start_at, total_issues, fetched_count>>
                ELSE /\ total_issues' = IF start_at = 0 THEN data.total ELSE total_issues
                     /\ all_issues' = all_issues \o data.issues
                     /\ fetched_count' = fetched_count + Len(data.issues)
                     /\ start_at' = NextOffset(start_at, data.issues)
                     /\ faithful' = (faithful /\ Faithful(data, remote, start_at))
                     /\ pc' = IF ListingDone(fetched_count', start_at', total_issues',
                                             data.issues)
                              THEN "return" ELSE "post"
                     /\ UNCHANGED response
    /\ UNCHANGED <<jiraVars, request, remote>>
    /\ UNCHANGED jiraFrame

\* Lines 265-270 and the call of analyze_productivity, line 371; the locals
\* of fetch_all_issues end with it.
FetchReturn ==
    /\ pc = "return"
    /\ jira_data' = [issues |-> all_issues, total |-> total_issues, startAt |-> 0,
                     maxResults |-> Len(all_issues)]
    /\ pc' = "analyze"
    /\ remote' = 0 /\ all_issues' = <<>> /\ start_at' = 0 /\ total_issues' = 0
    /\ fetched_count' = 0 /\ posts' = <<>> /\ faithful' = TRUE
    /\ UNCHANGED <<issues, stats, pos, response, request, first_page>>
    /\ UNCHANGED jiraFrame

NextJira ==
    \/ JiraEntry
    \/ FetchPage
    \/ FetchReturn
    \/ Analyze
    \/ FoldIssue
    \/ FinalizeRatios
    \/ Report

SpecJira == Init /\ [][NextJira]_vars

\* ================================================ claims on the listings
\* C19: the k-th search request asks for startAt = (k - 1) * batch_size; the
\* loop goes on only while every page so far held an issue and fewer issues
\* than the first page's 'total' have been fetched, so it has sent fewer
\* requests than that total; it ends, by return or by an exception, after at
\* most max(1, total) requests, and it returns only when the count has
\* reached the total or the last page was empty.
C19_OffsetListingTerminates ==
    LET sent == Len(posts)
        T == IF total_issues > 1 THEN total_issues ELSE 1
    IN  /\ pc \in {"post", "return"} =>
                /\ start_at = sent * batch_size
                /\ \A k \in DOMAIN posts : posts[k]
                /\ sent <= fetched_count \/ pc = "return"
                /\ fetched_count = Len(all_issues)
        /\ (pc = "post" /\ sent > 0) => (fetched_count < total_issues /\ sent < total_issues)
        /\ pc = "return" => (sent >= 1 /\ sent <= T)
        /\ (pc = "done" /\ posts # <<>>) =>
                /\ sent <= T
                /\ response.status = 500

C19_Witness ==
    /\ pc = "return" /\ ~faithful
    /\ total_issues = 4 /\ Len(posts) = 4
    /\ Len(all_issues) = 4
    /\ \A k \in 1..4 : all_issues[k].key = "PRJ-1"

\* C20 as claimed: when every request was answered with the slice asked for
\* (1..maxResults issues, none only past the end) and the true total, the
\* listing returns every issue of the server once, in the server's order.
C20_OffsetListingComplete ==
    (pc = "return" /\ faithful) =>
        /\ Len(all_issues) = remote
        /\ all_issues = Slice(0, remote, remote)
        /\ total_issues = remote

\* C16 as claimed: a run whose first listing request failed ends in an error
\* response, never in a 200.
C16_FirstPageFailureFatal ==
    (pc = "done" /\ first_page = "failed") => response.status \notin {0, 200}

\* C17 as claimed: when a listing request other than the first fails the run
\* goes on: the user listing ends with the emails of the earlier pages
\* kept, the issue listing returns the issues of the earlier pages, and the
\* run does not end in an error response because of it.
C17_LaterPageFailureTolerated ==
    /\ (Len(listPages) > 1 /\ ~IsOk(listPages[Len(listPages)])) =>
            /\ pc = "listed"
            /\ user_emails = Concat([k \in 1..(Len(listPages) - 1) |->
                                        PageEmails(listPages[k])])
    /\ (Len(posts) > 1 /\ ~posts[Len(posts)]) =>
            /\ pc \in {"return", "analyze"}
            /\ response.status \notin {400, 500}

\* ===================================================== the three endpoints
\* One request, to any of the three routes.
NextApp ==
    \/ Next
    \/ NextXlsx
    \/ NextJira

SpecApp == Init /\ [][NextApp]_vars

\* The required inputs the request lacks, by route.
MissingInputs ==
    IF "inactivity_days" \in DOMAIN request
    THEN (IF request.file THEN {} ELSE {"file"})
         \cup (IF "absent" \in DOMAIN request.inactivity_days THEN {"inactivity_days"} ELSE {})
         \cup (IF Truthy(request.admin_email) THEN {} ELSE {"admin_email"})
    ELSE IF "files" \in DOMAIN request
    THEN IF "file" \notin DOMAIN request.files \/ request.files.file.filename = ""
         THEN {"file"}
         ELSE IF "sheet" \in DOMAIN request.files.file
         THEN {required[i] : i \in MissingColumns(
                    {Canonical(c) : c \in request.files.file.sheet.columns})}
         ELSE {}
    ELSE IF "json" \in DOMAIN request
    THEN {k \in {"base_url", "username", "api_token"} : ~Truthy(Get(request.json, k, None))}
    ELSE {}

\* C15 as claimed: a request that lacks a required input is answered at once
\* with status 400, and nothing outside the handler has happened: no temp
\* file, no token exchange, no listing or search request.
C15_MissingInputRejected ==
    MissingInputs # {} =>
        /\ pc = "done"
        /\ response.status = 400
        /\ effects = {} /\ listPages = <<>> /\ posts = <<>>

\* C18: a handler is always at one of its own statements (no exception has
\* left it); it has answered exactly when it has ended, with status 200, 400
\* or 500, and a 500 carries an error; and wherever a stage raised (an
\* inactivity_days that is no number, a key file the credentials reject, a
\* listed user without primaryEmail, a workbook that cannot be read, a body
\* that is not JSON, a failed search request, an issue without status) the
\* request has ended with the 500 response.
C18_ErrorBoundary ==
    /\ pc \in {"entry", "list", "listed", "loop", "usage", "sleep", "derive", "select",
               "rank", "post", "return", "analyze", "fold", "report", "done"}
    /\ pc # "done" => response = NoResponse
    /\ pc = "done" =>
            /\ response.status \in {200, 400, 500}
            /\ "error" \in DOMAIN response.body <=> response.status # 200
    /\ ("inactivity_days" \in DOMAIN request /\ request.file
        /\ "num" \notin DOMAIN request.inactivity_days) =>
            (pc = "done" /\ response.status = 500)
    /\ effects = {"tempfile"} => (pc = "done" /\ response.status = 500)
    /\ (listPages # <<>> /\ IsOk(listPages[Len(listPages)])
        /\ Get(listPages[Len(listPages)].body, "users", <<>>) = <<EmptyObj>>) =>
            (pc = "done" /\ response.status = 500)
    /\ ("files" \in DOMAIN request /\ "file" \in DOMAIN request.files
        /\ request.files.file.filename = "notes.txt") =>
            (pc = "done" /\ response.status = 500)
    /\ "data" \in DOMAIN request => (pc = "done" /\ response.status = 500)
    /\ (posts # <<>> /\ ~posts[Len(posts)]) => (pc = "done" /\ response.status = 500)
    /\ ("issues" \in DOMAIN jira_data
        /\ \E k \in DOMAIN jira_data.issues : jira_data.issues[k] = Malformed) =>
            (pc = "analyze" \/ (pc = "done" /\ response.status = 500))

C18_Witness ==
    /\ pc = "done" /\ response.status = 500
    /\ response.body.error = "ValueError"
    /\ ent.i = 2 /\ ent.nusage = 2 /\ ent.lastOk
    /\ Len(inactive_users) = 1

\* ------------------------------------------------------------- the rankings
KeyGreater(a, b) == a[1] > b[1] \/ (a[1] = b[1] /\ a[2] > b[2])
\* where the i-th row goes in a stable descending order on the keys: after
\* the rows of greater key and the earlier rows of the same key
RankOf(keys, i) ==
    Cardinality({j \in DOMAIN keys : KeyGreater(keys[j], keys[i])})
    + Cardinality({j \in 1..i : keys[j] = keys[i]})
StablyRanked(input, keys, output) ==
    /\ Len(output) = Len(input)
    /\ \A i \in DOMAIN input : output[RankOf(keys, i)] = input[i]

\* C13: the step that answers /analyze-xlsx puts the selected rows in
\* descending order of Total Hours, then of the missed-or-voicemail total,
\* and the step that answers /upload puts all of inactive_users in
\* descending order of storage_gb; in both every row is kept and rows of
\* equal keys stay in the order they had.
C13_StableRanking ==
    [][/\ (pc = "rank" /\ pc' = "done") =>
              StablyRanked(ToRecords(top_users),
                           [i \in DOMAIN top_users |->
                               <<top_users[i]["Total Hours"],
                                 top_users[i]["Total Missed or Voicemails"]>>],
                           response'.body.users)
       /\ (pc = "loop" /\ pc' = "done" /\ response'.status = 200) =>
              StablyRanked(inactive_users,
                           [i \in DOMAIN inactive_users |->
                               <<inactive_users[i].storage_gb, 0>>],
                           response'.body.results)]_vars

C13_Witness ==
    /\ XlsxReported
    /\ [i \in DOMAIN top_users |-> top_users[i]["Name"]] = <<"C", "B", "A", "B">>
    /\ [i \in DOMAIN response.body.users |-> response.body.users[i]["Name"]]
            = <<"B", "A", "B", "C">>

====
